---- MODULE Spec2Model ----
(***************************************************************************)
(* Model of the PeakInfer GitHub Action v1.9.6 (src/src/index.ts, lines    *)
(* 348-1137): the verdict classifier, the bounded recursive file walk and  *)
(* the orchestrator `run`.                                                  *)
(*                                                                         *)
(* File and directory names are sequences of one-character strings, so     *)
(* that path.extname is computed on the name the way Node computes it.     *)
(* A path is the sequence of its components (what path.join produces).     *)
(***************************************************************************)
EXTENDS Integers, Sequences, FiniteSets, TLC

VARIABLES
    pc,        \* position of the running function
    inputs,    \* ActionInputs read by run, and whether the event is a pull request
    maxFiles,  \* third argument of collectFiles
    budget,    \* directory entries the file system may still list
    stack,     \* call stack of collectFiles: one frame per directory being listed
    files,     \* the accumulator `files` shared by the recursive calls
    skipped,   \* directories the walk met and did not enter (SKIP_DIRS)
    response,  \* what callAnalysisAPI returned to run
    verdictOut,\* current value of the `verdict` output (core.setOutput)
    outputs,   \* names of the outputs published so far
    failed,    \* core.setFailed has been called
    posts,     \* bodies handed to octokit.rest.issues.createComment, in order
    events,    \* the side-effecting calls of the run, in order
    thrown,    \* an exception reached the catch clause of run
    statsCall, \* how the request of fetchOrgStats ended ("none": not called)
    statusOut, \* value of the `status` output of the first revision
    vin,       \* arguments of the pure function under evaluation
    vout       \* its result

runVars == <<response, verdictOut, outputs, failed, posts, events, thrown, statsCall,
            statusOut>>
walkVars == <<maxFiles, budget, stack, files, skipped>>
vars == <<pc, inputs, maxFiles, budget, stack, files, skipped, response, verdictOut,
          outputs, failed, posts, events, thrown, statsCall, statusOut, vin, vout>>

-----------------------------------------------------------------------------
(* Bounds of the model *)

MaxEntries == 4      \* directory entries listed during one standalone collection
MaxCap == 2          \* largest maxFiles tried in a standalone collection
MaxCount == 3        \* largest critical count given to calculateVerdict
MaxWarn == 7         \* largest warning count given to calculateVerdict
MaxPoints == 2       \* inference points in one analysis result
RunEntries == 1      \* directory entries listed during the collection of a run

-----------------------------------------------------------------------------
(* CONFIGURATION: index.ts 369-377 *)

SUPPORTED_EXTENSIONS ==
    { <<".", "t", "s">>, <<".", "t", "s", "x">>, <<".", "j", "s">>,
      <<".", "j", "s", "x">>, <<".", "m", "j", "s">>, <<".", "c", "j", "s">>,
      <<".", "p", "y">>, <<".", "g", "o">>, <<".", "j", "a", "v", "a">>,
      <<".", "k", "t">>, <<".", "r", "s">>, <<".", "r", "b">> }

SKIP_DIRS ==
    { <<"n", "o", "d", "e", "_", "m", "o", "d", "u", "l", "e", "s">>,
      <<".", "g", "i", "t">>, <<"d", "i", "s", "t">>, <<"b", "u", "i", "l", "d">>,
      <<".", "n", "e", "x", "t">>,
      <<"_", "_", "p", "y", "c", "a", "c", "h", "e", "_", "_">>,
      <<"v", "e", "n", "d", "o", "r">>, <<".", "v", "e", "n", "v">>,
      <<"v", "e", "n", "v">> }

SizeLimit == 100000        \* index.ts 564: stat.size < 100000
DefaultMaxFiles == 50      \* index.ts 546: maxFiles = 50

-----------------------------------------------------------------------------
(* The file system the walk is run against.  Its entries are listed lazily: *)
(* each step of the walk draws the next entry of the directory being read. *)

NameATs == <<"a", ".", "t", "s">>
NameCPy == <<"c", ".", "p", "y">>
NameBMd == <<"b", ".", "m", "d">>
NameDotTs == <<".", "t", "s">>
NameSrc == <<"s", "r", "c">>
NameDist == <<"d", "i", "s", "t">>

EntryNames == {NameATs, NameCPy, NameBMd, NameDotTs, NameSrc, NameDist}

\* what statSync reports for an entry; "broken" makes statSync throw
\* (dangling symlink), "other" is neither a directory nor a regular file
EntryKinds == {"dir", "file", "other", "broken"}

FileSizes == {SizeLimit - 1, SizeLimit}

\* the `path` input after path.join's normalisation: ".", "./src", "./dist"
Roots == {<<>>, <<NameSrc>>, <<NameDist>>}

-----------------------------------------------------------------------------
(* path.extname (Node): the suffix from the last "." of the name; empty    *)
(* when there is no ".", when the only "." is the first character, or when *)
(* the name is "..".                                                       *)

LastDot(name) ==
    LET dots == {i \in 1..Len(name) : name[i] = "."}
    IN  IF dots = {} THEN 0 ELSE CHOOSE i \in dots : \A j \in dots : j <= i

extname(name) ==
    LET d == LastDot(name)
    IN  IF d = 0 \/ d = 1 \/ name = <<".", ".">>
        THEN <<>>
        ELSE SubSeq(name, d, Len(name))

\* path.join(dir, entry)
join(dir, entry) == Append(dir, entry)

-----------------------------------------------------------------------------
(* collectFiles: index.ts 546-576 *)

AtCapOffByOne(fs, max) == Len(fs) > max

\* 547 and 553: files.length >= maxFiles
AtCap(fs, max) == Len(fs) >= max

SkipDirNever(entry) == FALSE

\* 559: SKIP_DIRS.has(entry)
SkipDir(entry) == entry \in SKIP_DIRS

EligibleInclusive(ext, size) == ext \in SUPPORTED_EXTENSIONS /\ size <= SizeLimit

\* 564: SUPPORTED_EXTENSIONS.has(ext) && stat.size < 100000
Eligible(ext, size) == ext \in SUPPORTED_EXTENSIONS /\ size < SizeLimit

Frame(dir) == [dir |-> dir, seen |-> {}, phase |-> "entry"]

Top == stack[Len(stack)]

\* `return files` of the innermost call; the outermost one returns to the caller
Return ==
    /\ stack' = SubSeq(stack, 1, Len(stack) - 1)
    /\ pc' = IF Len(stack) = 1 THEN "collected" ELSE pc

\* one more entry of the directory of the top frame has been listed
Listed(name) ==
    [stack EXCEPT ![Len(stack)].seen = @ \cup {name}]

\* 547-550: the guards at function entry, then readdirSync.  Only the root
\* may be missing: a subdirectory was just stat'ed as a directory.
CollectEnter ==
    /\ pc = "collect"
    /\ stack # <<>>
    /\ Top.phase = "entry"
    /\ \E exists \in BOOLEAN, readable \in BOOLEAN :
          /\ (Len(stack) > 1) => exists
          /\ IF AtCap(files, maxFiles) \/ ~exists
             THEN /\ readable
                  /\ Return
             ELSE IF readable
             THEN /\ stack' = [stack EXCEPT ![Len(stack)].phase = "loop"]
                  /\ pc' = pc
             ELSE \* readdirSync throws (ENOTDIR, EACCES): nothing catches it
                  /\ stack' = stack
                  /\ pc' = "catch"
    /\ UNCHANGED <<inputs, maxFiles, budget, files, skipped, runVars, vin, vout>>

\* 552-553: the listing is exhausted, or the cap ends the loop early
CollectLoopEnd ==
    /\ pc = "collect"
    /\ stack # <<>>
    /\ Top.phase = "loop"
    /\ \E more \in BOOLEAN :
          /\ more => (budget > 0 /\ AtCap(files, maxFiles))
          /\ Return
    /\ UNCHANGED <<inputs, maxFiles, budget, files, skipped, runVars, vin, vout>>

\* 555-573: one iteration of the loop on the next listed entry
CollectEntry ==
    /\ pc = "collect"
    /\ stack # <<>>
    /\ Top.phase = "loop"
    /\ budget > 0
    /\ ~AtCap(files, maxFiles)
    /\ \E entry \in EntryNames \ Top.seen, kind \in EntryKinds,
          size \in FileSizes, readable \in BOOLEAN :
          LET fullPath == join(Top.dir, entry) IN
          /\ budget' = budget - 1
          /\ CASE kind = "broken" ->
                     \* 556: statSync throws out of collectFiles
                     /\ size = SizeLimit /\ readable
                     /\ stack' = Listed(entry)
                     /\ files' = files
                     /\ skipped' = skipped
                     /\ pc' = "catch"
               [] kind = "dir" ->
                     /\ size = SizeLimit /\ readable
                     /\ stack' = IF SkipDir(entry)
                                 THEN Listed(entry)
                                 ELSE Append(Listed(entry), Frame(fullPath))
                     /\ skipped' = IF SkipDir(entry)
                                   THEN skipped \cup {fullPath}
                                   ELSE skipped
                     /\ files' = files
                     /\ pc' = pc
               [] kind = "file" ->
                     /\ stack' = Listed(entry)
                     /\ files' = IF Eligible(extname(entry), size) /\ readable
                                 THEN Append(files, [path |-> fullPath,
                                                     kind |-> kind,
                                                     size |-> size])
                                 ELSE files
                     /\ skipped' = skipped
                     /\ pc' = pc
               [] kind = "other" ->
                     /\ size = SizeLimit /\ readable
                     /\ stack' = Listed(entry)
                     /\ files' = files
                     /\ skipped' = skipped
                     /\ pc' = pc
    /\ UNCHANGED <<inputs, maxFiles, runVars, vin, vout>>

-----------------------------------------------------------------------------
(* VERDICT LOGIC: index.ts 526-540 *)

calculateVerdictStrict(criticalCount, warningCount, hasLLMCode, creditsExhausted, hasError) ==
    IF hasError THEN "ERROR"
    ELSE IF creditsExhausted THEN "PAUSED"
    ELSE IF ~hasLLMCode THEN "SKIP"
    ELSE IF criticalCount > 2 THEN "BLOCK"
    ELSE IF criticalCount = 1 \/ warningCount > 5 THEN "REVIEW"
    ELSE IF warningCount >= 1 /\ warningCount <= 5 THEN "OK"
    ELSE "PASS"

\* the SKIP rule tested ahead of hasError and creditsExhausted
calculateVerdictSkipFirst(criticalCount, warningCount, hasLLMCode, creditsExhausted, hasError) ==
    IF ~hasLLMCode THEN "SKIP"
    ELSE IF hasError THEN "ERROR"
    ELSE IF creditsExhausted THEN "PAUSED"
    ELSE IF criticalCount >= 2 THEN "BLOCK"
    ELSE IF criticalCount = 1 \/ warningCount > 5 THEN "REVIEW"
    ELSE IF warningCount >= 1 /\ warningCount <= 5 THEN "OK"
    ELSE "PASS"

calculateVerdict(criticalCount, warningCount, hasLLMCode, creditsExhausted, hasError) ==
    IF hasError THEN "ERROR"
    ELSE IF creditsExhausted THEN "PAUSED"
    ELSE IF ~hasLLMCode THEN "SKIP"
    ELSE IF criticalCount >= 2 THEN "BLOCK"
    ELSE IF criticalCount = 1 \/ warningCount > 5 THEN "REVIEW"
    ELSE IF warningCount >= 1 /\ warningCount <= 5 THEN "OK"
    ELSE "PASS"

-----------------------------------------------------------------------------
(* countIssues: index.ts 712-724 *)

Severities == {"critical", "warning", "info"}

RECURSIVE CountSeverity(_, _)
CountSeverity(issues, sev) ==
    IF issues = <<>> THEN 0
    ELSE (IF Head(issues) = sev THEN 1 ELSE 0) + CountSeverity(Tail(issues), sev)

RECURSIVE countIssues(_)
countIssues(inferencePoints) ==
    IF inferencePoints = <<>> THEN [critical |-> 0, warnings |-> 0]
    ELSE LET rest == countIssues(Tail(inferencePoints))
             issues == Head(inferencePoints).issues
         IN  [critical |-> CountSeverity(issues, "critical") + rest.critical,
              warnings |-> CountSeverity(issues, "warning") + rest.warnings]

-----------------------------------------------------------------------------
(* What the analysis service may answer: index.ts 454-490, 623-629 *)

\* the issue lists an inference point may carry
PointIssues ==
    { <<>>, <<"critical">>, <<"warning">>, <<"info">>, <<"warning", "critical">> }

Points == [issues : PointIssues]

PointLists == UNION { [1..n -> Points] : n \in 0..MaxPoints }

ErrorCodes == {"CREDIT_EXHAUSTED", "INVALID_TOKEN", "absent"}

CommentModes == {"always", "on-issues", "never", "sometimes"}

NoAnalysis ==
    [present |-> FALSE, pointsPresent |-> FALSE, inferencePoints |-> <<>>, total |-> 0,
     layersUsed |-> FALSE, insights |-> FALSE]

\* a body with an `error` key (ErrorResponse); response.ok is whatever the
\* transport said
ErrorResults ==
    { [ok |-> ok, hasError |-> TRUE, code |-> c, analysis |-> NoAnalysis,
       credits |-> FALSE] : ok \in BOOLEAN, c \in ErrorCodes }

\* summary.totalInferencePoints as the service sends it, whatever the length of
\* the list of points: zero, one, or more than one
SummaryTotals == {0, 1, 2}

\* a body without an `error` key: an AnalysisResponse (analysis.present), or a
\* body of some other shape.  total is summary.totalInferencePoints;
\* pointsPresent, layersUsed, insights and credits say whether the field is
\* there (pointsPresent: the inferencePoints key).
AnalysisResults ==
    { [ok |-> ok, hasError |-> FALSE, code |-> "absent",
       analysis |-> [present |-> TRUE, pointsPresent |-> TRUE, inferencePoints |-> ps,
                     total |-> t, layersUsed |-> lu, insights |-> ins],
       credits |-> cr] :
         ok \in BOOLEAN, ps \in PointLists, t \in SummaryTotals,
         lu \in BOOLEAN, ins \in BOOLEAN, cr \in BOOLEAN }
    \cup
    { [ok |-> ok, hasError |-> FALSE, code |-> "absent",
       analysis |-> [present |-> TRUE, pointsPresent |-> FALSE, inferencePoints |-> <<>>,
                     total |-> t, layersUsed |-> lu, insights |-> ins],
       credits |-> cr] :
         ok \in BOOLEAN, t \in SummaryTotals,
         lu \in BOOLEAN, ins \in BOOLEAN, cr \in BOOLEAN }
    \cup
    { [ok |-> ok, hasError |-> FALSE, code |-> "absent", analysis |-> NoAnalysis,
       credits |-> FALSE] : ok \in BOOLEAN }

Responses == ErrorResults \cup AnalysisResults

NoResponse ==
    [ok |-> FALSE, hasError |-> FALSE, code |-> "none", analysis |-> NoAnalysis,
     credits |-> FALSE]

-----------------------------------------------------------------------------
(* run: index.ts 948-1135 *)

Throw ==
    /\ pc' = "catch"

\* octokit.rest.issues.createComment({... body}): the call is issued, and
\* either resolves or rejects
PostComment(kind, stats) ==
    /\ posts' = Append(posts, [kind |-> kind, stats |-> stats])

MayCommentAlwaysOnly(mode) == mode = "always"

\* 1026 and 1073: the comment-mode test of the skip and error comments
\* comments under every mode
MayCommentAny(mode) == TRUE

MayComment(mode) == mode # "never"

IsCreditExhaustedNever(resp) == FALSE

\* 1045: response.code === 'CREDIT_EXHAUSTED'
IsCreditExhausted(resp) == resp.code = "CREDIT_EXHAUSTED"

\* only the service token is required
MissingCredentialServiceOnly(in) == ~in.peakinferToken

\* 974 and 979: a required token is the empty string
MissingCredential(in) == ~in.peakinferToken \/ ~in.githubToken

\* 973-982: auth check
AuthCheck ==
    /\ pc = "start"
    /\ IF MissingCredential(inputs)
       THEN /\ failed' = TRUE
            /\ events' = Append(events, "setFailed")
            /\ pc' = "done"
       ELSE /\ pc' = "prcheck"
            /\ UNCHANGED <<failed, events>>
    /\ UNCHANGED <<inputs, walkVars, statusOut, statsCall, response, verdictOut, outputs, posts,
                   thrown, vin, vout>>

\* 988-1021: pull-request check, then collectFiles(inputs.path) is called
PRCheck ==
    /\ pc = "prcheck"
    /\ IF ~inputs.pull_request
       THEN /\ pc' = "done"
            /\ stack' = stack
       ELSE /\ pc' = "collect"
            /\ stack' = <<Frame(inputs.path)>>
    /\ UNCHANGED <<inputs, maxFiles, budget, files, skipped, runVars, vin, vout>>

\* 1024-1037: nothing collected.  The skip comment is issued at 1027 and run
\* is suspended until the call settles; under `never` the outputs are set at
\* once.
EmptyCollection ==
    /\ pc = "collected"
    /\ Len(files) = 0
    /\ IF MayComment(inputs.commentMode)
       THEN /\ PostComment("skip", "none")
            /\ events' = Append(events, "createComment")
            /\ pc' = "await.skip"
            /\ UNCHANGED <<verdictOut, outputs>>
       ELSE /\ events' = Append(events, "setOutput")
            /\ verdictOut' = "SKIP"
            /\ outputs' = outputs \cup {"verdict", "inference-points"}
            /\ pc' = "done"
            /\ posts' = posts
    /\ UNCHANGED <<inputs, walkVars, statusOut, statsCall, response, failed, thrown, vin, vout>>

\* 1027-1036: the skip comment settles: a rejection is thrown out of the
\* await, otherwise verdict and inference-points are set and run returns
SkipCommentSettled ==
    /\ pc = "await.skip"
    /\ \E rejects \in BOOLEAN :
          IF rejects
          THEN /\ Throw
               /\ UNCHANGED <<events, verdictOut, outputs>>
          ELSE /\ events' = Append(events, "setOutput")
               /\ verdictOut' = "SKIP"
               /\ outputs' = outputs \cup {"verdict", "inference-points"}
               /\ pc' = "done"
    /\ UNCHANGED <<inputs, walkVars, statusOut, statsCall, response, failed, posts, thrown,
                   vin, vout>>

\* 1039-1041 and 582-603: the single request to /analyze is issued and run is
\* suspended in the await
CallAnalysisAPI ==
    /\ pc = "collected"
    /\ Len(files) > 0
    /\ events' = Append(events, "fetch.analyze")
    /\ pc' = "await.analyze"
    /\ UNCHANGED <<inputs, walkVars, statusOut, statsCall, response, verdictOut, outputs, failed,
                   posts, thrown, vin, vout>>

\* a request that is sent again, once, after a rejected fetch
AnalysisSettledRetry ==
    /\ pc = "await.analyze"
    /\ \/ /\ IF \E i, j \in 1..Len(events) :
                   i # j /\ events[i] = "fetch.analyze" /\ events[j] = "fetch.analyze"
             THEN Throw
             ELSE pc' = "collected"
          /\ response' = response
       \/ \E data \in Responses :
             /\ response' = data
             /\ pc' = "handle"
    /\ UNCHANGED <<inputs, walkVars, statusOut, statsCall, verdictOut, outputs, failed, posts,
                   events, thrown, vin, vout>>

\* 603-630 and 1041: the request settles.  fetch may reject (603) and
\* response.json() may throw (623); neither await changes anything run has
\* written.  Otherwise the parsed body is returned, whatever response.ok says.
AnalysisSettled ==
    /\ pc = "await.analyze"
    /\ \/ /\ Throw
          /\ response' = response
       \/ \E data \in Responses :
             /\ response' = data
             /\ pc' = "handle"
    /\ UNCHANGED <<inputs, walkVars, statusOut, statsCall, verdictOut, outputs, failed, posts,
                   events, thrown, vin, vout>>

\* 636-667: how the request to /stats ends; every failure is absorbed into null
StatsOutcomes == {"stats", "http-error", "no-stats", "bad-json", "network-error"}

\* the last answer is kept when the request fails
fetchOrgStatsStale(outcome) == "stats"

\* 636-667: what fetchOrgStats returns
fetchOrgStats(outcome) == IF outcome = "stats" THEN "stats" ELSE "null"

\* 1045-1050 and 642: credits exhausted: the request to /stats is issued and
\* run is suspended in the await.  statsCall is how the endpoint ends this
\* request.
CreditExhausted ==
    /\ pc = "handle"
    /\ response.hasError
    /\ IsCreditExhausted(response)
    /\ \E outcome \in StatsOutcomes : statsCall' = outcome
    /\ events' = Append(events, "fetch.stats")
    /\ pc' = "await.stats"
    /\ UNCHANGED <<inputs, walkVars, statusOut, response, verdictOut, outputs, failed, posts,
                   thrown, vin, vout>>

\* 1050-1063: fetchOrgStats returns the stats or null, the paused comment is
\* built from them (zeros for null) and issued, and run is suspended again
StatsSettled ==
    /\ pc = "await.stats"
    /\ LET stats == fetchOrgStats(statsCall) IN
          PostComment("paused", IF stats = "null" THEN "zero" ELSE "real")
    /\ events' = Append(events, "createComment")
    /\ pc' = "await.paused"
    /\ UNCHANGED <<inputs, walkVars, statusOut, statsCall, response, verdictOut, outputs, failed,
                   thrown, vin, vout>>

\* 1063-1070: the paused comment settles: a rejection is thrown, otherwise
\* verdict is set to PAUSED and run returns
PausedCommentSettled ==
    /\ pc = "await.paused"
    /\ \E rejects \in BOOLEAN :
          IF rejects
          THEN /\ Throw
               /\ UNCHANGED <<events, verdictOut, outputs>>
          ELSE /\ events' = Append(events, "setOutput")
               /\ verdictOut' = "PAUSED"
               /\ outputs' = outputs \cup {"verdict"}
               /\ pc' = "done"
    /\ UNCHANGED <<inputs, walkVars, statusOut, statsCall, response, failed, posts, thrown,
                   vin, vout>>

\* 1072-1082: any other error result: setFailed first, then the error comment
\* is issued (1074) and run is suspended; under `never` the verdict is set at
\* once
ServiceError ==
    /\ pc = "handle"
    /\ response.hasError
    /\ ~IsCreditExhausted(response)
    /\ failed' = TRUE
    /\ IF MayComment(inputs.commentMode)
       THEN /\ PostComment("error", "none")
            /\ events' = events \o <<"setFailed", "createComment">>
            /\ pc' = "await.error"
            /\ UNCHANGED <<verdictOut, outputs>>
       ELSE /\ events' = events \o <<"setFailed", "setOutput">>
            /\ verdictOut' = "ERROR"
            /\ outputs' = outputs \cup {"verdict"}
            /\ pc' = "done"
            /\ posts' = posts
    /\ UNCHANGED <<inputs, walkVars, statusOut, statsCall, response, thrown, vin, vout>>

\* 1074-1082: the error comment settles: a rejection is thrown, otherwise
\* verdict is set to ERROR and run returns
ErrorCommentSettled ==
    /\ pc = "await.error"
    /\ \E rejects \in BOOLEAN :
          IF rejects
          THEN /\ Throw
               /\ UNCHANGED <<events, verdictOut, outputs>>
          ELSE /\ events' = Append(events, "setOutput")
               /\ verdictOut' = "ERROR"
               /\ outputs' = outputs \cup {"verdict"}
               /\ pc' = "done"
    /\ UNCHANGED <<inputs, walkVars, statusOut, statsCall, response, failed, posts, thrown,
                   vin, vout>>

SuccessStepsFailFirst == <<"failcheck", "comment", "outputs">>

\* 1088-1125: the order of the steps of the success path
SuccessSteps == <<"comment", "outputs", "failcheck">>

FirstStep == SuccessSteps[1]

StepAfter(step) ==
    LET i == CHOOSE k \in 1..Len(SuccessSteps) : SuccessSteps[k] = step
    IN  IF i = Len(SuccessSteps) THEN "done" ELSE SuccessSteps[i + 1]

\* 1089
issueCounts == countIssues(response.analysis.inferencePoints)

\* 1090-1096
verdict ==
    calculateVerdict(issueCounts.critical, issueCounts.warnings,
                     response.analysis.total > 0, FALSE, FALSE)

\* 1085-1096: no `error` key: the body is destructured as an AnalysisResponse;
\* analysis.summary (1086) of a body without `analysis` throws a TypeError, and
\* so does countIssues (1089, the for-of at 716) on an analysis without
\* inferencePoints
TakeSuccess ==
    /\ pc = "handle"
    /\ ~response.hasError
    /\ IF response.analysis.present /\ response.analysis.pointsPresent
       THEN pc' = FirstStep
       ELSE Throw
    /\ UNCHANGED <<inputs, walkVars, runVars, vin, vout>>

\* on-issues treated as always
ShouldCommentUnlessNever(mode, counts) == mode # "never"

\* 1099: the comment-mode test of the success path
ShouldComment(mode, counts) ==
    \/ mode = "always"
    \/ (mode = "on-issues" /\ (counts.critical > 0 \/ counts.warnings > 0))

\* 1100: whether generateComment throws on the analysis of the response:
\* renderLayerStatus (726-729, called at 744) reads layersUsed.includes and
\* 826 reads insights.filter, each a TypeError on a result without the field
generateCommentThrows(analysis) == ~analysis.layersUsed \/ ~analysis.insights

\* 1098-1101: when the comment is due, generateComment builds it (a throw
\* leaves before anything is posted), the post is issued and run is suspended
SuccessComment ==
    /\ pc = "comment"
    /\ IF ShouldComment(inputs.commentMode, issueCounts)
       THEN IF generateCommentThrows(response.analysis)
            THEN /\ Throw
                 /\ UNCHANGED <<posts, events>>
            ELSE /\ PostComment("success", "none")
                 /\ events' = Append(events, "createComment")
                 /\ pc' = "await.success"
       ELSE /\ pc' = StepAfter("comment")
            /\ UNCHANGED <<posts, events>>
    /\ UNCHANGED <<inputs, walkVars, statusOut, statsCall, response, verdictOut, outputs, failed,
                   thrown, vin, vout>>

\* 1101-1107: the success comment settles: a rejection is thrown, otherwise
\* run goes on to the next step
SuccessCommentSettled ==
    /\ pc = "await.success"
    /\ \E rejects \in BOOLEAN :
          IF rejects THEN Throw ELSE pc' = StepAfter("comment")
    /\ UNCHANGED <<inputs, walkVars, runVars, vin, vout>>

\* 1109-1120: the outputs; analysis.layersUsed.join throws on a result without
\* layersUsed, after the first five outputs were set
SetOutputs ==
    /\ pc = "outputs"
    /\ events' = Append(events, "setOutput")
    /\ verdictOut' = verdict
    /\ IF ~response.analysis.layersUsed
       THEN /\ outputs' = outputs \cup {"verdict", "inference-points",
                                         "critical-count", "warning-count",
                                         "drift-count"}
            /\ Throw
       ELSE /\ outputs' = outputs \cup
                   {"verdict", "inference-points", "critical-count",
                    "warning-count", "drift-count", "layers-used"} \cup
                   (IF response.credits
                    THEN {"credits-used", "credits-remaining"} ELSE {})
            /\ pc' = StepAfter("outputs")
    /\ UNCHANGED <<inputs, walkVars, statusOut, statsCall, response, failed, posts, thrown, vin, vout>>

ShouldFailIgnoresFlag(failOnCritical, counts) == counts.critical > 0

\* 1123: the condition of step 9
ShouldFail(failOnCritical, counts) == failOnCritical /\ counts.critical > 0

\* 1122-1125
FailCheck ==
    /\ pc = "failcheck"
    /\ IF ShouldFail(inputs.failOnCritical, issueCounts)
       THEN /\ failed' = TRUE
            /\ events' = Append(events, "setFailed")
       ELSE UNCHANGED <<failed, events>>
    /\ pc' = StepAfter("failcheck")
    /\ UNCHANGED <<inputs, walkVars, statusOut, statsCall, response, verdictOut, outputs, posts,
                   thrown, vin, vout>>

CatchKeepsVerdict ==
    /\ pc = "catch"
    /\ thrown' = TRUE
    /\ failed' = TRUE
    /\ events' = Append(events, "setFailed")
    /\ pc' = "done"
    /\ UNCHANGED <<inputs, walkVars, statusOut, statsCall, response, verdictOut, outputs, posts, vin, vout>>

\* 1127-1134: the catch clause of run
Catch ==
    /\ pc = "catch"
    /\ thrown' = TRUE
    /\ verdictOut' = "ERROR"
    /\ outputs' = outputs \cup {"verdict"}
    /\ failed' = TRUE
    /\ events' = events \o <<"setOutput", "setFailed">>
    /\ pc' = "done"
    /\ UNCHANGED <<inputs, walkVars, statusOut, statsCall, response, posts, vin, vout>>

-----------------------------------------------------------------------------
(* Specifications *)

DefaultInputs ==
    [path |-> <<NameSrc>>, peakinferToken |-> TRUE, githubToken |-> TRUE,
     pull_request |-> TRUE, failOnCritical |-> FALSE, commentMode |-> "always"]

InitRunVars ==
    /\ response = NoResponse
    /\ verdictOut = "unset"
    /\ outputs = {}
    /\ failed = FALSE
    /\ posts = <<>>
    /\ events = <<>>
    /\ thrown = FALSE
    /\ statsCall = "none"
    /\ statusOut = "unset"

\* a run of the action: every configuration, on a pull request or not
Init ==
    /\ pc = "start"
    /\ inputs \in [path : Roots, peakinferToken : BOOLEAN, githubToken : BOOLEAN,
                   pull_request : BOOLEAN, failOnCritical : BOOLEAN,
                   commentMode : CommentModes]
    /\ maxFiles = DefaultMaxFiles
    /\ budget = RunEntries
    /\ stack = <<>>
    /\ files = <<>>
    /\ skipped = {}
    /\ InitRunVars
    /\ vin = <<>>
    /\ vout = "none"

Next ==
    \/ AuthCheck
    \/ PRCheck
    \/ CollectEnter
    \/ CollectLoopEnd
    \/ CollectEntry
    \/ EmptyCollection
    \/ SkipCommentSettled
    \/ CallAnalysisAPI
    \/ AnalysisSettled
    \/ CreditExhausted
    \/ StatsSettled
    \/ PausedCommentSettled
    \/ ServiceError
    \/ ErrorCommentSettled
    \/ TakeSuccess
    \/ SuccessComment
    \/ SuccessCommentSettled
    \/ SetOutputs
    \/ FailCheck
    \/ Catch

Spec == Init /\ [][Next]_vars

\* collectFiles(root, [], max) called on its own
InitCollect ==
    /\ pc = "collect"
    /\ inputs \in {[DefaultInputs EXCEPT !.path = r] : r \in Roots}
    /\ maxFiles \in 0..MaxCap
    /\ budget = MaxEntries
    /\ stack = <<Frame(inputs.path)>>
    /\ files = <<>>
    /\ skipped = {}
    /\ InitRunVars
    /\ vin = <<>>
    /\ vout = "none"

NextCollect == CollectEnter \/ CollectLoopEnd \/ CollectEntry

SpecCollect == InitCollect /\ [][NextCollect]_vars

\* calculateVerdict applied to every input within the bounds
VerdictInputs ==
    [criticalCount : 0..MaxCount, warningCount : 0..MaxWarn, hasLLMCode : BOOLEAN,
     creditsExhausted : BOOLEAN, hasError : BOOLEAN]

InitVerdict ==
    /\ pc = "verdict"
    /\ inputs = DefaultInputs
    /\ maxFiles = DefaultMaxFiles
    /\ budget = 0
    /\ stack = <<>>
    /\ files = <<>>
    /\ skipped = {}
    /\ InitRunVars
    /\ vin \in VerdictInputs
    /\ vout = "none"

EvalVerdict ==
    /\ pc = "verdict"
    /\ vout' = calculateVerdict(vin.criticalCount, vin.warningCount, vin.hasLLMCode,
                                vin.creditsExhausted, vin.hasError)
    /\ pc' = "evaluated"
    /\ UNCHANGED <<inputs, walkVars, runVars, vin>>

NextVerdict == EvalVerdict

SpecVerdict == InitVerdict /\ [][NextVerdict]_vars

-----------------------------------------------------------------------------
(* The layer configuration and the request body of callAnalysisAPI.
   A JavaScript value is a tagged record; an object is a function from its
   keys to values, and a key may hold the value undefined. *)

Undefined == [type |-> "undefined"]
Null == [type |-> "null"]
Str(s) == [type |-> "string", val |-> s]
Obj(props) == [type |-> "object", props |-> props]

Truthy(v) == v.type = "object" \/ (v.type = "string" /\ v.val # "")

\* core.getInput(name) || undefined
OrUndefined(raw) == IF raw = "" THEN Undefined ELSE Str(raw)

\* JSON.stringify keeps a key whose value is undefined, as null
RECURSIVE JSONstringifyKeepsUndefined(_)
JSONstringifyKeepsUndefined(v) ==
    IF v.type = "object"
    THEN Obj([k \in DOMAIN v.props |-> JSONstringifyKeepsUndefined(v.props[k])])
    ELSE IF v.type = "undefined" THEN Null ELSE v

\* JSON.stringify, read back by the receiver: a key whose value is undefined
\* is left out of the text, at every depth
RECURSIVE JSONstringify(_)
JSONstringify(v) ==
    IF v.type = "object"
    THEN Obj([k \in {j \in DOMAIN v.props : v.props[j].type # "undefined"} |->
                 JSONstringify(v.props[k])])
    ELSE v

\* the raw values of the layer inputs, as core.getInput returns them
LayerInputs ==
    [runtimeSource : {"", "helicone"}, runtimeApiKey : {"", "key"},
     eventsFile : {"", "events.jsonl"},
     includeBenchmarks : {"", "true", "false"}, benchmarkFramework : {"", "vllm"},
     evalsSource : {"", "promptfoo"}, evalsApiKey : {"", "key"}]

\* the inputs of run that configure the layers
ParseInputs(raw) ==
    [runtimeSource |-> OrUndefined(raw.runtimeSource),
     runtimeApiKey |-> OrUndefined(raw.runtimeApiKey),
     eventsFile |-> OrUndefined(raw.eventsFile),
     includeBenchmarks |-> raw.includeBenchmarks # "false",
     benchmarkFramework |->
         IF raw.benchmarkFramework = "" THEN Str("api") ELSE Str(raw.benchmarkFramework),
     evalsSource |-> OrUndefined(raw.evalsSource),
     evalsApiKey |-> OrUndefined(raw.evalsApiKey)]

\* a disabled layer keeps no parameter
LayerConfigGuarded(in) ==
    LET runtime == Truthy(in.runtimeSource) \/ Truthy(in.eventsFile)
        evals == Truthy(in.evalsSource)
    IN  [code |-> [enabled |-> TRUE],
         runtime |-> [enabled |-> runtime,
                      source |-> IF runtime THEN in.runtimeSource ELSE Undefined,
                      apiKey |-> IF runtime THEN in.runtimeApiKey ELSE Undefined,
                      eventsFile |-> IF runtime THEN in.eventsFile ELSE Undefined],
         benchmarks |-> [enabled |-> in.includeBenchmarks,
                         framework |-> IF in.includeBenchmarks
                                       THEN in.benchmarkFramework ELSE Undefined],
         evals |-> [enabled |-> evals,
                    source |-> IF evals THEN in.evalsSource ELSE Undefined,
                    apiKey |-> IF evals THEN in.evalsApiKey ELSE Undefined]]

\* 998-1015
LayerConfig(in) ==
    [code |-> [enabled |-> TRUE],
     runtime |-> [enabled |-> Truthy(in.runtimeSource) \/ Truthy(in.eventsFile),
                  source |-> in.runtimeSource,
                  apiKey |-> in.runtimeApiKey,
                  eventsFile |-> in.eventsFile],
     benchmarks |-> [enabled |-> in.includeBenchmarks,
                     framework |-> in.benchmarkFramework],
     evals |-> [enabled |-> Truthy(in.evalsSource),
                source |-> in.evalsSource,
                apiKey |-> in.evalsApiKey]]

\* the object literal handed to JSON.stringify (the layers and the mode of it)
RequestLiteral(layers) ==
    Obj([layers |-> Obj(
             [runtime |-> IF layers.runtime.enabled
                          THEN Obj([source |-> layers.runtime.source,
                                    apiKey |-> layers.runtime.apiKey,
                                    eventsFile |-> layers.runtime.eventsFile])
                          ELSE Undefined,
              benchmarks |-> IF layers.benchmarks.enabled
                             THEN Obj([framework |-> layers.benchmarks.framework])
                             ELSE Undefined,
              evals |-> IF layers.evals.enabled
                        THEN Obj([source |-> layers.evals.source,
                                  apiKey |-> layers.evals.apiKey])
                        ELSE Undefined]),
         mode |-> Str("paid")])

InitLayers ==
    /\ pc = "layers"
    /\ inputs = DefaultInputs
    /\ maxFiles = DefaultMaxFiles
    /\ budget = 0
    /\ stack = <<>>
    /\ files = <<>>
    /\ skipped = {}
    /\ InitRunVars
    /\ vin \in LayerInputs
    /\ vout = [config |-> "none", body |-> "none"]

\* run, 951-1015: the inputs are read and the layer configuration is built
ParseLayerConfig ==
    /\ pc = "layers"
    /\ vout' = [config |-> LayerConfig(ParseInputs(vin)), body |-> "none"]
    /\ pc' = "request"
    /\ UNCHANGED <<inputs, walkVars, runVars, vin>>

\* callAnalysisAPI, 597-621: the body of the POST
BuildRequest ==
    /\ pc = "request"
    /\ vout' = [vout EXCEPT !.body = JSONstringify(RequestLiteral(vout.config))]
    /\ pc' = "sent"
    /\ UNCHANGED <<inputs, walkVars, runVars, vin>>

NextLayers == ParseLayerConfig \/ BuildRequest

SpecLayers == InitLayers /\ [][NextLayers]_vars

-----------------------------------------------------------------------------
(* PR COMMENT GENERATION: index.ts 726-942.  A body is the sequence of the
   lines pushed, each a record of a tag and the text that varies. *)

DriftRowsShown == 10
ComparisonsShown == 10
InsightsShown == 5

Line(tag) == [tag |-> tag, text |-> ""]
Rows(tag, n) == [i \in 1..n |-> Line(tag)]
Min(a, b) == IF a < b THEN a ELSE b
Tags(body) == {body[i].tag : i \in 1..Len(body)}

\* a render function either returns a body or throws a TypeError
Returned(body) == [threw |-> FALSE, lines |-> body]
ThrewTypeError == [threw |-> TRUE, lines |-> <<>>]

\* an optional array of the result: the key may be absent
Absent == [present |-> FALSE, items |-> <<>>]
Array(items) == [present |-> TRUE, items |-> items]

RECURSIVE IssueIndex(_, _, _)
IssueIndex(issues, sev, j) ==
    IF j > Len(issues) THEN 0
    ELSE IF issues[j] = sev THEN j
    ELSE IssueIndex(issues, sev, j + 1)

RECURSIVE FirstIssue(_, _, _)
FirstIssue(points, sev, i) ==
    IF i > Len(points)
    THEN [found |-> FALSE, point |-> 0, issue |-> 0, severity |-> "none"]
    ELSE LET j == IssueIndex(points[i].issues, sev, 1)
         IN  IF j > 0
             THEN [found |-> TRUE, point |-> i, issue |-> j, severity |-> sev]
             ELSE FirstIssue(points, sev, i + 1)

RECURSIVE FirstFlagged(_, _)
\* one pass that stops at the first critical or warning issue
FirstFlagged(points, i) ==
    IF i > Len(points)
    THEN [found |-> FALSE, point |-> 0, issue |-> 0, severity |-> "none"]
    ELSE LET c == IssueIndex(points[i].issues, "critical", 1)
             w == IssueIndex(points[i].issues, "warning", 1)
             j == IF c = 0 THEN w ELSE IF w = 0 THEN c ELSE Min(c, w)
         IN  IF j > 0
             THEN [found |-> TRUE, point |-> i, issue |-> j,
                   severity |-> points[i].issues[j]]
             ELSE FirstFlagged(points, i + 1)

findTopIssueSinglePass(inferencePoints) == FirstFlagged(inferencePoints, 1)

\* 870-886
findTopIssue(inferencePoints) ==
    LET critical == FirstIssue(inferencePoints, "critical", 1)
    IN  IF critical.found THEN critical
        ELSE FirstIssue(inferencePoints, "warning", 1)

RECURSIVE IssueTotal(_)
IssueTotal(inferencePoints) ==
    IF inferencePoints = <<>> THEN 0
    ELSE Len(Head(inferencePoints).issues) + IssueTotal(Tail(inferencePoints))

\* 673-700
getEnhancementPrompts(layersUsed, hasRecommendations) ==
    (IF "runtime" \notin layersUsed THEN <<"Runtime">> ELSE <<>>) \o
    (IF "benchmarks" \notin layersUsed THEN <<"Benchmarks">> ELSE <<>>) \o
    (IF "evals" \notin layersUsed /\ hasRecommendations THEN <<"Evals">> ELSE <<>>)

RECURSIVE PromptLines(_)
PromptLines(prompts) ==
    IF prompts = <<>> THEN <<>>
    ELSE <<[tag |-> "prompt", text |-> Head(prompts)], Line("fence"),
           Line("prompt.snippet"), Line("fence"), Line("blank")>> \o
         PromptLines(Tail(prompts))

\* insights.filter(i => i.severity === 'critical' || i.severity === 'warning')
criticalInsights(insights) ==
    SelectSeq(insights, LAMBDA sev : sev \in {"critical", "warning"})


Elements(array) == {array[i] : i \in 1..Len(array)}

\* the summary line decided by the list of points
NoPointsInList(analysis) == Len(analysis.inferencePoints) = 0

\* 749: summary.totalInferencePoints === 0
NoPointsInSummary(analysis) == analysis.total = 0

\* 731-868
generateComment(analysis, v, credits, showEnhancementPrompts) ==
    LET inferencePoints == analysis.inferencePoints
        drifts == analysis.drifts
        benchmarkComparisons == analysis.benchmarkComparisons
        counts == countIssues(inferencePoints)
        topIssue == findTopIssue(inferencePoints)
        shown == criticalInsights(analysis.insights.items)
        prompts == getEnhancementPrompts(Elements(analysis.layersUsed.items),
                                         analysis.totalOptimizations > 0)
        head == <<[tag |-> "header", text |-> v], Line("blank"),
                  Line("layers"), Line("blank")>>
        summary == IF NoPointsInSummary(analysis)
                   THEN <<Line("summary.none"), Line("blank")>>
                   ELSE <<Line("summary.found"), Line("blank")>>
        top == IF topIssue.found
               THEN <<[tag |-> "top.headline", text |-> topIssue.severity],
                      Line("top.location"), Line("top.impact")>> \o
                    (IF analysis.suggestedFix
                     THEN <<Line("blank"), Line("fix.label"), Line("fence"),
                            Line("fix.text"), Line("fence")>>
                     ELSE <<>>) \o
                    <<Line("blank")>>
               ELSE <<>>
        driftBlock ==
            IF drifts.present /\ Len(drifts.items) > 0
            THEN <<Line("details"), Line("drift.summary"), Line("blank"),
                   Line("drift.head"), Line("drift.rule")>> \o
                 Rows("drift.row", Min(Len(drifts.items), DriftRowsShown)) \o
                 (IF Len(drifts.items) > DriftRowsShown
                  THEN <<Line("drift.more")>> ELSE <<>>) \o
                 <<Line("blank"), Line("/details"), Line("blank")>>
            ELSE <<>>
        benchmarkBlock ==
            IF benchmarkComparisons.present /\ Len(benchmarkComparisons.items) > 0
            THEN <<Line("details"), Line("benchmark.summary"), Line("blank"),
                   Line("benchmark.head"), Line("benchmark.rule")>> \o
                 Rows("benchmark.row",
                      Min(Len(benchmarkComparisons.items), ComparisonsShown)) \o
                 <<Line("blank"), Line("/details"), Line("blank")>>
            ELSE <<>>
        issueBlock ==
            IF counts.critical > 0 \/ counts.warnings > 0
            THEN <<Line("details"), Line("issues.summary"), Line("blank"),
                   Line("issues.head"), Line("issues.rule")>> \o
                 Rows("issue.row", IssueTotal(inferencePoints)) \o
                 <<Line("blank"), Line("/details"), Line("blank")>>
            ELSE <<>>
        insightBlock ==
            IF Len(shown) > 0
            THEN <<Line("details"), Line("insights.summary"), Line("blank")>> \o
                 Rows("insight.row", Min(Len(shown), InsightsShown)) \o
                 <<Line("blank"), Line("/details"), Line("blank")>>
            ELSE <<>>
        promptBlock ==
            IF showEnhancementPrompts /\ Len(prompts) > 0
            THEN <<Line("details"), Line("prompts.summary"), Line("blank")>> \o
                 PromptLines(prompts) \o
                 <<Line("/details"), Line("blank")>>
            ELSE <<>>
        footer == <<Line("rule"),
                    IF credits THEN Line("footer.credits") ELSE Line("footer.plain")>>
    IN  IF ~analysis.layersUsed.present THEN ThrewTypeError   \* 744, 727
        ELSE IF ~analysis.insights.present THEN ThrewTypeError   \* 826
        ELSE Returned(head \o summary \o top \o driftBlock \o benchmarkBlock \o
                      issueBlock \o insightBlock \o promptBlock \o footer)

\* 923-942; the hint is undefined, the empty string or a text
generateErrorComment(error, hint) ==
    Returned(<<[tag |-> "header", text |-> "ERROR"], Line("blank"), Line("error")>> \o
             (IF Truthy(hint) THEN <<Line("blank"), Line("hint")>> ELSE <<>>) \o
             <<Line("blank"), Line("report"), Line("blank"), Line("rule"),
               Line("footer.plain")>>)

LayerLists == {<<"code">>, <<"code", "runtime", "benchmarks", "evals">>}

RenderInputs ==
    [fn : {"generateComment"},
     analysis : [inferencePoints : PointLists,
                 total : 0..MaxPoints,
                 drifts : {Absent, Array(<<>>), Array(Rows("drift", DriftRowsShown + 1))},
                 benchmarkComparisons : {Absent, Array(Rows("comparison", 1))},
                 insights : {Absent, Array(<<>>), Array(<<"info">>),
                             Array(<<"critical", "warning">>)},
                 totalOptimizations : {0, 1},
                 suggestedFix : BOOLEAN,
                 layersUsed : {Absent} \cup {Array(l) : l \in LayerLists}],
     credits : BOOLEAN,
     showEnhancementPrompts : BOOLEAN]

ErrorRenderInputs ==
    [fn : {"generateErrorComment"}, hint : {Undefined, Str(""), Str("check the token")}]

InitRender ==
    /\ pc = "render"
    /\ inputs = DefaultInputs
    /\ maxFiles = DefaultMaxFiles
    /\ budget = 0
    /\ stack = <<>>
    /\ files = <<>>
    /\ skipped = {}
    /\ InitRunVars
    /\ vin \in RenderInputs \cup ErrorRenderInputs
    /\ vout = "none"

\* 1089-1100: run renders the comment of a success result
RenderComment ==
    /\ pc = "render"
    /\ vin.fn = "generateComment"
    /\ LET counts == countIssues(vin.analysis.inferencePoints)
           v == calculateVerdict(counts.critical, counts.warnings,
                                 vin.analysis.total > 0, FALSE, FALSE)
       IN  vout' = generateComment(vin.analysis, v, vin.credits,
                                   vin.showEnhancementPrompts)
    /\ pc' = "rendered"
    /\ UNCHANGED <<inputs, walkVars, runVars, vin>>

\* 1078: run renders the comment of an error result
RenderErrorComment ==
    /\ pc = "render"
    /\ vin.fn = "generateErrorComment"
    /\ vout' = generateErrorComment("error", vin.hint)
    /\ pc' = "rendered"
    /\ UNCHANGED <<inputs, walkVars, runVars, vin>>

NextRender == RenderComment \/ RenderErrorComment

SpecRender == InitRender /\ [][NextRender]_vars

-----------------------------------------------------------------------------
(* collectFiles as a function of the tree: index.ts 546-576 called twice on
   a file system that does not change between the calls.  A directory holds a
   set of entries; each call lists them with readdirSync (550), which returns
   them in an order the file system chooses and the code does not sort. *)

TreeWidth == 2       \* entries of the root directory of a tree

TreeFiles ==
    {[name |-> n, kind |-> "file", size |-> sz, readable |-> r,
      listable |-> TRUE, children |-> <<>>] :
        n \in {NameATs, NameCPy, NameBMd}, sz \in FileSizes, r \in BOOLEAN}

TreeLeaves ==
    TreeFiles \cup
    {[name |-> NameDotTs, kind |-> "other", size |-> SizeLimit, readable |-> TRUE,
      listable |-> TRUE, children |-> <<>>],
     [name |-> NameBMd, kind |-> "broken", size |-> SizeLimit, readable |-> TRUE,
      listable |-> TRUE, children |-> <<>>]}

TreeDirs ==
    {[name |-> n, kind |-> "dir", size |-> SizeLimit, readable |-> TRUE,
      listable |-> TRUE, children |-> c] :
        n \in {NameSrc, NameDist},
        c \in {<<>>} \cup {<<l>> : l \in TreeLeaves}}
    \cup
    {[name |-> NameSrc, kind |-> "dir", size |-> SizeLimit, readable |-> TRUE,
      listable |-> FALSE, children |-> <<>>]}

TreeEntries == TreeLeaves \cup TreeDirs

\* the contents of a root directory: sets of entries, no name twice
Contents ==
    UNION { { {l[i] : i \in 1..n} :
                l \in {m \in [1..n -> TreeEntries] :
                          \A i, j \in 1..n : i # j => m[i].name # m[j].name} } :
            n \in 0..TreeWidth }

\* 550: what one call of readdirSync may return for a directory with these
\* entries: every entry once, in any order
readdirSync(entries) ==
    {l \in [1..Cardinality(entries) -> entries] :
        \A i, j \in 1..Cardinality(entries) : i # j => l[i] # l[j]}

Directory(path, exists, listable, entries) ==
    [path |-> path, exists |-> exists, listable |-> listable, entries |-> entries]

\* a root: an existing directory with its set of entries, or a missing path
Trees ==
    {Directory(<<>>, TRUE, TRUE, c) : c \in Contents} \cup
    {Directory(<<>>, FALSE, TRUE, {})}

\* collectFiles returned the array, or an exception left it
Collected(fs) == [threw |-> FALSE, files |-> fs]
CollectThrew(fs) == [threw |-> TRUE, files |-> fs]

RECURSIVE collectFiles(_, _, _)
RECURSIVE ForEntries(_, _, _, _)

\* 552-573: the loop over the entries of a directory
ForEntries(path, entries, fs, max) ==
    IF entries = <<>> \/ AtCap(fs, max) THEN Collected(fs)
    ELSE LET entry == Head(entries)
             fullPath == join(path, entry.name)
         IN  CASE entry.kind = "broken" -> CollectThrew(fs)
               [] entry.kind = "dir" ->
                      IF SkipDir(entry.name)
                      THEN ForEntries(path, Tail(entries), fs, max)
                      ELSE LET sub == collectFiles(
                                          Directory(fullPath, TRUE, entry.listable,
                                                    entry.children), fs, max)
                           IN  IF sub.threw THEN sub
                               ELSE ForEntries(path, Tail(entries), sub.files, max)
               [] entry.kind = "file" ->
                      ForEntries(path, Tail(entries),
                                 IF Eligible(extname(entry.name), entry.size)
                                    /\ entry.readable
                                 THEN Append(fs, [path |-> fullPath,
                                                  kind |-> entry.kind,
                                                  size |-> entry.size])
                                 ELSE fs,
                                 max)
               [] OTHER -> ForEntries(path, Tail(entries), fs, max)

\* 546-576
collectFiles(dir, fs, max) ==
    IF AtCap(fs, max) THEN Collected(fs)
    ELSE IF ~dir.exists THEN Collected(fs)
    ELSE IF ~dir.listable THEN CollectThrew(fs)
    ELSE ForEntries(dir.path, dir.entries, fs, max)

\* the array of an earlier call is used again
DefaultFilesShared(earlier) == earlier

\* 546: the default `files = []` is evaluated at every call
DefaultFiles(earlier) == <<>>

NotCalled == [threw |-> FALSE, files |-> <<>>, called |-> FALSE, listing |-> <<>>]

\* one call collectFiles(root) with maxFiles, whose readdirSync of the root
\* returned `listing`; fs is the value of the parameter `files`
CallCollectFiles(listing, fs) ==
    LET result == collectFiles(Directory(vin.root.path, vin.root.exists,
                                         vin.root.listable, listing),
                               fs, vin.maxFiles)
    IN  [threw |-> result.threw, files |-> result.files, called |-> TRUE,
         listing |-> listing]

InitTwice ==
    /\ pc = "tree"
    /\ inputs = DefaultInputs
    /\ maxFiles = DefaultMaxFiles
    /\ budget = 0
    /\ stack = <<>>
    /\ files = <<>>
    /\ skipped = {}
    /\ InitRunVars
    /\ vin \in [root : Trees, maxFiles : 0..MaxCap]
    /\ vout = [first |-> NotCalled, second |-> NotCalled]

\* the first collection: readdirSync lists the root in some order
CollectOnce ==
    /\ pc = "tree"
    /\ \E listing \in readdirSync(vin.root.entries) :
          vout' = [vout EXCEPT !.first =
                      CallCollectFiles(listing, DefaultFiles(<<>>))]
    /\ pc' = "once"
    /\ UNCHANGED <<inputs, walkVars, runVars, vin>>

\* the second collection, with the same root on the same tree: readdirSync
\* is called again and lists the root in some order, the same or another
CollectAgain ==
    /\ pc = "once"
    /\ \E listing \in readdirSync(vin.root.entries) :
          vout' = [vout EXCEPT !.second =
                      CallCollectFiles(listing, DefaultFiles(vout.first.files))]
    /\ pc' = "twice"
    /\ UNCHANGED <<inputs, walkVars, runVars, vin>>

NextTwice == CollectOnce \/ CollectAgain

SpecTwice == InitTwice /\ [][NextTwice]_vars

-----------------------------------------------------------------------------
(* The first revision of the action: index.ts 1-346.  Its collectFiles
   (90-120) is the one of 546-576, so the walk is the same actions. *)

Rev1Inputs ==
    [path : Roots, token : BOOLEAN, githubToken : BOOLEAN, pull_request : BOOLEAN,
     failOnCritical : BOOLEAN]

\* the parsed body of the answer of /analyze: an ErrorResponse, or a body
\* without `error`, whose analysis (with its summary), list of inference
\* points and credits may be missing.  total, criticalIssues and warnings are
\* the three counts of analysis.summary (69-73).
Rev1Responses ==
    [hasError : {TRUE}, code : ErrorCodes, analysis : {FALSE}, points : {FALSE},
     total : {0}, criticalIssues : {0}, warnings : {0}, credits : {FALSE}]
    \cup
    [hasError : {FALSE}, code : {"absent"}, analysis : {TRUE}, points : BOOLEAN,
     total : SummaryTotals, criticalIssues : 0..MaxCount, warnings : {0, 1},
     credits : BOOLEAN]
    \cup
    [hasError : {FALSE}, code : {"absent"}, analysis : {FALSE}, points : {FALSE},
     total : {0}, criticalIssues : {0}, warnings : {0}, credits : BOOLEAN]

\* 170-214: whether generateComment of the first revision throws: with no
\* points in the summary it reads credits.remaining (183) and returns; otherwise
\* the issues table (191-202) iterates inferencePoints when the summary counts
\* a critical issue or a warning, a TypeError on a body without the list, and
\* the footer reads credits.remaining (211)
Rev1generateCommentThrows(resp) ==
    IF resp.total = 0
    THEN ~resp.credits
    ELSE \/ ((resp.criticalIssues > 0 \/ resp.warnings > 0) /\ ~resp.points)
         \/ ~resp.credits

\* 327: analysis.summary.criticalIssues > 0 ? 'fail' : 'pass'
Rev1Status(criticalIssues) == IF criticalIssues > 0 THEN "fail" ELSE "pass"

\* 307: the value of the status output when the credits are exhausted
Rev1ExhaustedStatus == "skipped"

InitRev1 ==
    /\ pc = "rev1.start"
    /\ inputs \in Rev1Inputs
    /\ maxFiles = DefaultMaxFiles
    /\ budget = RunEntries
    /\ stack = <<>>
    /\ files = <<>>
    /\ skipped = {}
    /\ InitRunVars
    /\ vin = <<>>
    /\ vout = "none"

\* 249-258
Rev1AuthCheck ==
    /\ pc = "rev1.start"
    /\ IF ~inputs.token \/ ~inputs.githubToken
       THEN /\ failed' = TRUE
            /\ events' = Append(events, "setFailed")
            /\ pc' = "done"
       ELSE /\ pc' = "rev1.prcheck"
            /\ UNCHANGED <<failed, events>>
    /\ UNCHANGED <<inputs, walkVars, statusOut, statsCall, response, verdictOut,
                   outputs, posts, thrown, vin, vout>>

\* 263-275
Rev1PRCheck ==
    /\ pc = "rev1.prcheck"
    /\ IF ~inputs.pull_request
       THEN /\ pc' = "done"
            /\ stack' = stack
       ELSE /\ pc' = "collect"
            /\ stack' = <<Frame(inputs.path)>>
    /\ UNCHANGED <<inputs, maxFiles, budget, files, skipped, runVars, vin, vout>>

\* 278-281: nothing collected, the run ends with a warning
Rev1NoFiles ==
    /\ pc = "collected"
    /\ Len(files) = 0
    /\ pc' = "done"
    /\ UNCHANGED <<inputs, walkVars, runVars, vin, vout>>

\* 283-294 and 126-140: the request to /analyze is issued and run is
\* suspended in the await
Rev1CallAnalysisAPI ==
    /\ pc = "collected"
    /\ Len(files) > 0
    /\ events' = Append(events, "fetch.analyze")
    /\ pc' = "rev1.await.analyze"
    /\ UNCHANGED <<inputs, walkVars, statusOut, statsCall, response, verdictOut, outputs,
                   failed, posts, thrown, vin, vout>>

\* 140-164 and 285: the request settles: fetch may reject and response.json()
\* (157) may throw, otherwise the parsed body is returned
Rev1AnalysisSettled ==
    /\ pc = "rev1.await.analyze"
    /\ \/ /\ Throw
          /\ response' = response
       \/ \E data \in Rev1Responses :
             /\ response' = data
             /\ pc' = "rev1.handle"
    /\ UNCHANGED <<inputs, walkVars, statusOut, statsCall, verdictOut, outputs,
                   failed, posts, events, thrown, vin, vout>>

\* 297-301: credits exhausted: the paused comment is issued and run is
\* suspended in the await
Rev1CreditExhausted ==
    /\ pc = "rev1.handle"
    /\ response.hasError
    /\ response.code = "CREDIT_EXHAUSTED"
    /\ PostComment("paused", "zero")
    /\ events' = Append(events, "createComment")
    /\ pc' = "rev1.await.paused"
    /\ UNCHANGED <<inputs, walkVars, statusOut, statsCall, response, verdictOut, outputs,
                   failed, thrown, vin, vout>>

\* 301-308: the paused comment settles: a rejection is thrown, otherwise the
\* status output is set and run returns
Rev1PausedCommentSettled ==
    /\ pc = "rev1.await.paused"
    /\ \E rejects \in BOOLEAN :
          IF rejects
          THEN /\ Throw
               /\ UNCHANGED <<events, statusOut, outputs>>
          ELSE /\ events' = Append(events, "setOutput")
               /\ statusOut' = Rev1ExhaustedStatus
               /\ outputs' = outputs \cup {"status"}
               /\ pc' = "done"
    /\ UNCHANGED <<inputs, walkVars, statsCall, response, verdictOut, failed, posts,
                   thrown, vin, vout>>

\* 310-311
Rev1ServiceError ==
    /\ pc = "rev1.handle"
    /\ response.hasError
    /\ response.code # "CREDIT_EXHAUSTED"
    /\ failed' = TRUE
    /\ events' = Append(events, "setFailed")
    /\ pc' = "done"
    /\ UNCHANGED <<inputs, walkVars, statusOut, statsCall, response, verdictOut,
                   outputs, posts, thrown, vin, vout>>

\* 314-319: the comment of a result.  Reading analysis.summary (315) of a body
\* without analysis throws, and so may generateComment (318); otherwise the
\* comment is issued and run is suspended in the await.
Rev1Success ==
    /\ pc = "rev1.handle"
    /\ ~response.hasError
    /\ IF ~response.analysis \/ Rev1generateCommentThrows(response)
       THEN /\ Throw
            /\ UNCHANGED <<posts, events>>
       ELSE /\ PostComment("success", "none")
            /\ events' = Append(events, "createComment")
            /\ pc' = "rev1.await.success"
    /\ UNCHANGED <<inputs, walkVars, statusOut, statsCall, response, verdictOut, outputs,
                   failed, thrown, vin, vout>>

\* 319-335: the comment settles: a rejection is thrown, otherwise the outputs
\* are set and the run is failed on a critical issue when configured so
Rev1SuccessCommentSettled ==
    /\ pc = "rev1.await.success"
    /\ \E rejects \in BOOLEAN :
          IF rejects
          THEN /\ Throw
               /\ UNCHANGED <<events, statusOut, outputs, failed>>
          ELSE /\ statusOut' = Rev1Status(response.criticalIssues)
               /\ outputs' = outputs \cup
                      {"status", "inference-points", "issues", "summary"}
               /\ failed' = (inputs.failOnCritical
                             /\ response.criticalIssues > 0)
               /\ events' = Append(events, "setOutput") \o
                      (IF inputs.failOnCritical /\ response.criticalIssues > 0
                       THEN <<"setFailed">> ELSE <<>>)
               /\ pc' = "done"
    /\ UNCHANGED <<inputs, walkVars, statsCall, response, verdictOut, posts, thrown,
                   vin, vout>>

\* 337-343: the catch clause of the first revision
Rev1Catch ==
    /\ pc = "catch"
    /\ thrown' = TRUE
    /\ failed' = TRUE
    /\ events' = Append(events, "setFailed")
    /\ pc' = "done"
    /\ UNCHANGED <<inputs, walkVars, statusOut, statsCall, response, verdictOut,
                   outputs, posts, vin, vout>>

NextRev1 ==
    \/ Rev1AuthCheck \/ Rev1PRCheck
    \/ CollectEnter \/ CollectLoopEnd \/ CollectEntry
    \/ Rev1NoFiles \/ Rev1CallAnalysisAPI \/ Rev1AnalysisSettled
    \/ Rev1CreditExhausted \/ Rev1PausedCommentSettled
    \/ Rev1ServiceError
    \/ Rev1Success \/ Rev1SuccessCommentSettled
    \/ Rev1Catch

SpecRev1 == InitRev1 /\ [][NextRev1]_vars

-----------------------------------------------------------------------------
(* findTopIssue alone, on lists of points whose issues mix the severities *)

TopIssueSeqs ==
    { <<>>, <<"info">>, <<"warning">>, <<"critical">>, <<"warning", "critical">>,
      <<"info", "warning">>, <<"critical", "critical">>, <<"info", "info">> }

TopPointLists == UNION { [1..n -> [issues : TopIssueSeqs]] : n \in 0..MaxPoints }

InitTopIssue ==
    /\ pc = "top"
    /\ inputs = DefaultInputs
    /\ maxFiles = DefaultMaxFiles
    /\ budget = 0
    /\ stack = <<>>
    /\ files = <<>>
    /\ skipped = {}
    /\ InitRunVars
    /\ vin \in TopPointLists
    /\ vout = "none"

\* 757: const topIssue = findTopIssue(inferencePoints)
EvalTopIssue ==
    /\ pc = "top"
    /\ vout' = findTopIssue(vin)
    /\ pc' = "top.found"
    /\ UNCHANGED <<inputs, walkVars, runVars, vin>>

NextTopIssue == EvalTopIssue

SpecTopIssue == InitTopIssue /\ [][NextTopIssue]_vars

-----------------------------------------------------------------------------
(* Properties *)

\* positions of a call in the history of the run
At(call) == {i \in 1..Len(events) : events[i] = call}

Kinds(ps) == [i \in 1..Len(ps) |-> ps[i].kind]

\* the issues of a result, counted as a set of positions
CriticalPositions ==
    LET ps == response.analysis.inferencePoints
    IN  UNION { { <<i, j>> : j \in {n \in 1..Len(ps[i].issues) :
                                       ps[i].issues[n] = "critical"} } :
                i \in 1..Len(ps) }

\* the analysis call returned an ErrorResponse with code CREDIT_EXHAUSTED
CreditExhaustedResult == response.hasError /\ response.code = "CREDIT_EXHAUSTED"

\* the analysis call returned an ErrorResponse with another code, or none
OtherErrorResult == response.hasError /\ response.code # "CREDIT_EXHAUSTED"

\* the run went down the success path
SuccessResult == ~response.hasError /\ response.analysis.present

\* C1: calculateVerdict returns the label of the first rule that matches, in
\* the order hasError, creditsExhausted, not hasLLMCode, critical >= 2,
\* critical = 1 or warning > 5, 1 <= warning <= 5, otherwise PASS; with the
\* boundary cases (1,0) REVIEW, (2,0) BLOCK, (0,5) OK, (0,6) REVIEW.
C1_FirstMatchingRule ==
    pc = "evaluated" =>
        LET c == vin.criticalCount
            w == vin.warningCount
            r1 == vin.hasError
            r2 == vin.creditsExhausted
            r3 == ~vin.hasLLMCode
            r4 == c >= 2
            r5 == c = 1 \/ w > 5
            r6 == 1 <= w /\ w <= 5
            plain == vin.hasLLMCode /\ ~vin.creditsExhausted /\ ~vin.hasError
        IN  /\ r1 => vout = "ERROR"
            /\ (~r1 /\ r2) => vout = "PAUSED"
            /\ (~r1 /\ ~r2 /\ r3) => vout = "SKIP"
            /\ (~r1 /\ ~r2 /\ ~r3 /\ r4) => vout = "BLOCK"
            /\ (~r1 /\ ~r2 /\ ~r3 /\ ~r4 /\ r5) => vout = "REVIEW"
            /\ (~r1 /\ ~r2 /\ ~r3 /\ ~r4 /\ ~r5 /\ r6) => vout = "OK"
            /\ (~r1 /\ ~r2 /\ ~r3 /\ ~r4 /\ ~r5 /\ ~r6) => vout = "PASS"
            /\ (plain /\ c = 1 /\ w = 0) => vout = "REVIEW"
            /\ (plain /\ c = 2 /\ w = 0) => vout = "BLOCK"
            /\ (plain /\ c = 0 /\ w = 5) => vout = "OK"
            /\ (plain /\ c = 0 /\ w = 6) => vout = "REVIEW"

C1_Witness ==
    /\ pc = "evaluated"
    /\ vin.criticalCount = 2 /\ vin.warningCount = 0
    /\ vin.hasLLMCode /\ ~vin.creditsExhausted /\ ~vin.hasError
    /\ vout = "BLOCK"

\* C2 as stated: whenever the analysis call returns a CREDIT_EXHAUSTED error
\* result, the finished run has posted the quota-exhausted comment, exports
\* PAUSED and is not marked failed.
C2_AlwaysPaused ==
    (pc = "done" /\ CreditExhaustedResult) =>
        /\ Kinds(posts) = <<"paused">>
        /\ verdictOut = "PAUSED"
        /\ ~failed

\* C2 amended: on a CREDIT_EXHAUSTED error result the quota-exhausted comment
\* post is issued whatever fail-on-critical and comment-mode are; when that
\* post does not throw the run exports PAUSED and is not marked failed, and
\* when it throws the run ends failed with ERROR.
C2_PausedUnlessPostThrows ==
    (pc = "done" /\ CreditExhaustedResult) =>
        /\ Kinds(posts) = <<"paused">>
        /\ ~thrown => (verdictOut = "PAUSED" /\ ~failed)
        /\ thrown => (verdictOut = "ERROR" /\ failed)

C2_Witness ==
    /\ pc = "done"
    /\ CreditExhaustedResult
    /\ inputs.failOnCritical
    /\ Kinds(posts) = <<"paused">>
    /\ verdictOut = "PAUSED"
    /\ ~failed

\* C3: whenever the analysis call returns an error result whose code is not
\* CREDIT_EXHAUSTED (or is absent), the run is marked failed, exports ERROR,
\* and the error comment is posted exactly when comment-mode is not `never`.
C3_OtherErrorFails ==
    (pc = "done" /\ OtherErrorResult) =>
        /\ failed
        /\ verdictOut = "ERROR"
        /\ (inputs.commentMode # "never") => Kinds(posts) = <<"error">>
        /\ (inputs.commentMode = "never") => posts = <<>>

C3_Witness ==
    /\ pc = "done"
    /\ response.hasError /\ response.code = "absent"
    /\ inputs.commentMode = "on-issues"
    /\ ~thrown
    /\ Kinds(posts) = <<"error">>
    /\ failed /\ verdictOut = "ERROR"

\* C4 as stated: a run issues at most one comment post, and none when
\* comment-mode is `never`.
C4_AtMostOnePostNoneOnNever ==
    /\ Len(posts) <= 1
    /\ (inputs.commentMode = "never") => Len(posts) = 0

\* C5: on the success path, when the success comment is posted and the run is
\* marked failed because of critical issues, the comment post and the
\* publication of the outputs both precede the marking as failed.
C5_FeedbackBeforeFailure ==
    (SuccessResult /\ ~thrown /\ pc # "catch" /\ failed /\ posts # <<>>) =>
        \A f \in At("setFailed") :
            /\ \E c \in At("createComment") : c < f
            /\ \E o \in At("setOutput") : o < f
            /\ "verdict" \in outputs

C5_Witness ==
    /\ pc = "done"
    /\ SuccessResult /\ ~thrown
    /\ inputs.failOnCritical
    /\ Cardinality(CriticalPositions) = 2
    /\ verdictOut = "BLOCK"
    /\ failed
    /\ Kinds(posts) = <<"success">>
    /\ events = <<"fetch.analyze", "createComment", "setOutput", "setFailed">>

\* C6: on the success path when no step throws, the run is marked failed if
\* and only if fail-on-critical is true and there is at least one critical
\* issue; with fail-on-critical false a BLOCK or REVIEW run is not failed.
C6_FailedIffConfiguredAndCritical ==
    (pc = "done" /\ SuccessResult /\ ~thrown) =>
        /\ failed <=> (inputs.failOnCritical /\ CriticalPositions # {})
        /\ (~inputs.failOnCritical /\ verdictOut \in {"BLOCK", "REVIEW"}) => ~failed

C6_Witness ==
    /\ pc = "done"
    /\ SuccessResult /\ ~thrown
    /\ ~inputs.failOnCritical
    /\ verdictOut = "BLOCK"
    /\ ~failed

\* C7: when a step of the run throws, the exception reaches the catch clause,
\* the run ends marked failed and the last value of the `verdict` output is
\* ERROR, also when another verdict was exported before the throw.
C7_ThrowEndsInError ==
    (pc = "done" /\ thrown) => (failed /\ verdictOut = "ERROR")

C7_Witness ==
    /\ pc = "done"
    /\ thrown
    /\ SuccessResult
    /\ Cardinality(At("setOutput")) = 2
    /\ verdictOut = "ERROR"
    /\ failed

\* C8: at every step of the walk the accumulator holds at most maxFiles
\* entries, so the returned list never has more than maxFiles entries.
C8_NeverAboveCap ==
    Len(files) <= maxFiles

C8_Witness ==
    /\ pc = "collected"
    /\ maxFiles = 1
    /\ Len(files) = 1
    /\ Len(files[1].path) = Len(inputs.path) + 2
    /\ budget > 0

\* C9 as stated: for every root argument, no directory component of a
\* returned path is in the denylist.
C9_NoDenylistedComponent ==
    \A k \in 1..Len(files) :
        \A i \in 1..(Len(files[k].path) - 1) :
            files[k].path[i] \notin SKIP_DIRS

\* C9 amended: no directory component below the root argument of a returned
\* path is in the denylist (the components of the root itself are not tested).
C9_NoDenylistedComponentBelowRoot ==
    \A k \in 1..Len(files) :
        \A i \in (Len(inputs.path) + 1)..(Len(files[k].path) - 1) :
            files[k].path[i] \notin SKIP_DIRS

C9_Witness ==
    /\ pc = "collected"
    /\ inputs.path = <<>>
    /\ skipped = {<<NameDist>>}
    /\ Len(files) = 1
    /\ files[1].path = <<NameSrc, NameATs>>

\* C10: every returned entry is a regular file whose extension is in the
\* allowlist and whose size at stat time was below 100,000 bytes.
C10_OnlyEligibleFiles ==
    \A k \in 1..Len(files) :
        LET f == files[k]
            name == f.path[Len(f.path)]
        IN  /\ f.kind = "file"
            /\ f.size < 100000
            /\ \E e \in SUPPORTED_EXTENSIONS :
                  /\ Len(name) > Len(e)
                  /\ SubSeq(name, Len(name) - Len(e) + 1, Len(name)) = e

C10_Witness ==
    /\ pc = "collected"
    /\ Len(files) = 1
    /\ files[1].size = 99999
    /\ files[1].path[Len(files[1].path)] = NameCPy
    /\ budget = MaxEntries - 2

\* C11 as stated: a failure on an individual directory entry (an entry that is
\* listed but cannot be stat'ed or read) never makes collectFiles fail: no
\* exception leaves the loop over the entries.
C11_EntryFailureAbsorbed ==
    ~(pc = "catch" /\ stack # <<>> /\ Top.phase = "loop")

\* C12 as stated: the error branch is taken exactly when the transport status
\* is non-success: a run on the success path has a success status, and a run
\* that took an error branch has a non-success status.
C12_StatusDiscriminates ==
    /\ (pc \in {"comment", "await.success", "outputs", "failcheck"}) => response.ok
    /\ (pc = "done" /\ response.hasError) => ~response.ok

OptionalLayers == {"runtime", "benchmarks", "evals"}

\* C13: in the request body, `layers` holds the key of an optional layer
\* exactly when that layer is enabled, and it never holds a key whose value is
\* null; the mode is always paid.
C13_LayerKeyIffEnabled ==
    pc = "sent" =>
        LET sent == vout.body.props.layers.props IN
        /\ DOMAIN sent \subseteq OptionalLayers
        /\ \A l \in OptionalLayers :
               /\ l \in DOMAIN sent <=> vout.config[l].enabled
               /\ l \in DOMAIN sent => sent[l].type = "object"
        /\ vout.body.props.mode = Str("paid")

\* a request with the runtime layer disabled and the other two enabled
C13_Witness ==
    /\ pc = "sent"
    /\ ~vout.config.runtime.enabled
    /\ vout.config.benchmarks.enabled
    /\ vout.config.evals.enabled
    /\ DOMAIN vout.body.props.layers.props = {"benchmarks", "evals"}

\* C14: the analysis endpoint is requested at most once in a run, and a run
\* that passed the credential and pull-request checks and whose collection
\* returned at least one file requests it exactly once.
C14_AnalysisRequestedOnce ==
    /\ Cardinality(At("fetch.analyze")) <= 1
    /\ (/\ inputs.peakinferToken /\ inputs.githubToken /\ inputs.pull_request
        /\ pc \in {"await.analyze", "handle", "await.stats", "await.paused",
                  "await.error", "comment", "await.success", "outputs",
                  "failcheck", "catch", "done"}
        /\ stack = <<>>
        /\ Len(files) > 0)
       => Cardinality(At("fetch.analyze")) = 1

\* a finished run whose single request was answered with an error result
C14_Witness ==
    /\ pc = "done"
    /\ Len(files) > 0
    /\ response.hasError
    /\ Cardinality(At("fetch.analyze")) = 1

StatsFailures == StatsOutcomes \ {"stats"}

\* C15 as stated: on the credit-exhausted path, whatever way the stats call
\* fails, the run posts the quota-exhausted comment with zero figures, exports
\* PAUSED and is not marked failed.
C15_StatsFailureAlwaysPaused ==
    (pc = "done" /\ statsCall \in StatsFailures) =>
        /\ posts = <<[kind |-> "paused", stats |-> "zero"]>>
        /\ verdictOut = "PAUSED"
        /\ ~failed

\* C15, amended: on the credit-exhausted path, whatever way the stats call
\* fails, the failure is absorbed: the quota-exhausted comment is posted with
\* zero figures, and the run exports PAUSED and is not marked failed unless
\* the post itself throws; the stats call is made exactly once.
C15_StatsFailureAbsorbed ==
    (pc \in {"await.paused", "done", "catch"} /\ statsCall \in StatsFailures) =>
        /\ posts = <<[kind |-> "paused", stats |-> "zero"]>>
        /\ Cardinality(At("fetch.stats")) = 1
        /\ (pc = "done" /\ ~thrown) => (verdictOut = "PAUSED" /\ ~failed)
        /\ (pc = "done" /\ thrown) => (verdictOut = "ERROR" /\ failed)
        /\ pc = "catch" => At("createComment") # {}

\* a finished run whose stats request met a network error and which still
\* exported PAUSED
C15_Witness ==
    /\ pc = "done"
    /\ statsCall = "network-error"
    /\ posts = <<[kind |-> "paused", stats |-> "zero"]>>
    /\ verdictOut = "PAUSED"
    /\ ~failed

\* C16: when the service token or the platform token is missing, the run is
\* marked failed at once: no file is collected, nothing is requested from the
\* analysis or the stats endpoint, no comment is posted, no output published.
C16_MissingCredentialFailsAtOnce ==
    ((~inputs.peakinferToken \/ ~inputs.githubToken) /\ pc # "start") =>
        /\ pc = "done"
        /\ failed
        /\ events = <<"setFailed">>
        /\ posts = <<>>
        /\ outputs = {}
        /\ verdictOut = "unset"
        /\ files = <<>> /\ stack = <<>> /\ budget = RunEntries
        /\ response = NoResponse /\ statsCall = "none"

\* a run on a pull request that has the service token and lacks the platform
\* token, after its auth check
C16_Witness ==
    /\ pc = "done"
    /\ inputs.peakinferToken /\ ~inputs.githubToken /\ inputs.pull_request
    /\ failed
    /\ events = <<"setFailed">>

\* a finished run that passed both checks and whose collection returned no file
EmptyRun ==
    /\ pc = "done"
    /\ inputs.peakinferToken /\ inputs.githubToken /\ inputs.pull_request
    /\ stack = <<>>
    /\ files = <<>>

\* C17 as stated: when the collection yields zero files the run exports SKIP,
\* posts the no-detectable-code comment exactly when the comment mode permits,
\* never calls the analysis service and is not marked failed.
C17_EmptyAlwaysSkip ==
    EmptyRun =>
        /\ verdictOut = "SKIP"
        /\ ~failed
        /\ At("fetch.analyze") = {}
        /\ IF inputs.commentMode # "never"
           THEN Kinds(posts) = <<"skip">>
           ELSE posts = <<>>

\* C17, amended: when the collection yields zero files the run never calls the
\* analysis service, issues the no-detectable-code post exactly when the
\* comment mode is not `never`, and, unless that post throws, exports SKIP
\* with zero inference points and is not marked failed.
C17_EmptySkipUnlessPostThrows ==
    EmptyRun =>
        /\ At("fetch.analyze") = {} /\ At("fetch.stats") = {}
        /\ response = NoResponse
        /\ IF inputs.commentMode # "never"
           THEN Kinds(posts) = <<"skip">>
           ELSE posts = <<>> /\ ~thrown
        /\ ~thrown => /\ verdictOut = "SKIP"
                      /\ ~failed
                      /\ outputs = {"verdict", "inference-points"}
        /\ thrown => (verdictOut = "ERROR" /\ failed)

\* an empty collection under mode `never`: SKIP exported, nothing posted
C17_Witness ==
    /\ EmptyRun
    /\ inputs.commentMode = "never"
    /\ verdictOut = "SKIP"
    /\ posts = <<>>
    /\ ~failed

WarningPositions ==
    LET ps == response.analysis.inferencePoints
    IN  UNION { { <<i, j>> : j \in {n \in 1..Len(ps[i].issues) :
                                       ps[i].issues[n] = "warning"} } :
                i \in 1..Len(ps) }

\* the comment-mode rule of the success path, on the issues of the result
CommentDue ==
    \/ inputs.commentMode = "always"
    \/ /\ inputs.commentMode = "on-issues"
       /\ (CriticalPositions # {} \/ WarningPositions # {})

\* 1110-1115: the outputs every successful run publishes
SuccessOutputs ==
    {"verdict", "inference-points", "critical-count", "warning-count",
     "drift-count", "layers-used"}

NoCodeNoIssues ==
    /\ pc = "evaluated"
    /\ vin.criticalCount = 0 /\ vin.warningCount = 0 /\ ~vin.hasLLMCode

\* C19 as stated: with zero critical, zero warning and hasLLMCode false,
\* calculateVerdict returns SKIP whatever creditsExhausted and hasError are.
C19_SkipRegardlessOfFlags ==
    NoCodeNoIssues => vout = "SKIP"

\* C19, amended: with zero critical, zero warning and hasLLMCode false,
\* calculateVerdict returns SKIP when creditsExhausted and hasError are both
\* false, ERROR when hasError is true, and PAUSED when creditsExhausted is
\* true and hasError false.
C19_SkipWhenNoFlag ==
    NoCodeNoIssues =>
        vout = IF vin.hasError THEN "ERROR"
               ELSE IF vin.creditsExhausted THEN "PAUSED"
               ELSE "SKIP"

\* the evaluation on (0, 0, false, false, false)
C19_Witness ==
    /\ NoCodeNoIssues
    /\ ~vin.creditsExhausted /\ ~vin.hasError
    /\ vout = "SKIP"

\* C20 as stated: the render functions never throw when optional fields are
\* absent: a success result with no credits object, no drifts array, no
\* benchmarkComparisons and no insights is rendered to a body whose footer
\* carries no credit figures, and an error result with no hint is rendered to
\* a body as well.
C20_RenderNeverThrows ==
    /\ (/\ pc = "rendered" /\ vin.fn = "generateComment"
        /\ vin.analysis.layersUsed.present
        /\ ~vin.credits
        /\ ~vin.analysis.drifts.present
        /\ ~vin.analysis.benchmarkComparisons.present
        /\ ~vin.analysis.insights.present)
       => /\ ~vout.threw
          /\ "footer.plain" \in Tags(vout.lines)
          /\ "footer.credits" \notin Tags(vout.lines)
    /\ (pc = "rendered" /\ vin.fn = "generateErrorComment" /\ ~Truthy(vin.hint))
       => (~vout.threw /\ "hint" \notin Tags(vout.lines))

IssueTableTags == {"issues.summary", "issues.head", "issues.rule", "issue.row"}
TopIssueTags == {"top.headline", "top.location", "top.impact", "fix.label", "fix.text"}

\* C21: for a success result with zero inference points, the body returned by
\* generateComment holds the line saying that no inference points were
\* detected and holds no issues table and no expanded top issue.  The line is
\* there whenever the summary count is zero, the table and the top issue are
\* absent whenever the list of points is empty.
C21_ZeroPointsBody ==
    (pc = "rendered" /\ vin.fn = "generateComment" /\ ~vout.threw) =>
        LET tags == Tags(vout.lines) IN
        /\ vin.analysis.total = 0 =>
               ("summary.none" \in tags /\ "summary.found" \notin tags)
        /\ vin.analysis.inferencePoints = <<>> =>
               (tags \cap (IssueTableTags \cup TopIssueTags) = {})
        /\ vin.analysis.total = 0 =>
               vout.lines[1] = [tag |-> "header", text |-> "SKIP"]

\* a result with no point and a summary count of zero, rendered
C21_Witness ==
    /\ pc = "rendered" /\ vin.fn = "generateComment" /\ ~vout.threw
    /\ vin.analysis.inferencePoints = <<>> /\ vin.analysis.total = 0
    /\ "summary.none" \in Tags(vout.lines)
    /\ "issues.head" \notin Tags(vout.lines)
    /\ "top.headline" \notin Tags(vout.lines)

PathSet(result) == {result.files[i].path : i \in 1..Len(result.files)}

\* a file collectFiles takes when it meets it below the cap
Takeable(entry) ==
    /\ entry.kind = "file" /\ entry.readable
    /\ Eligible(extname(entry.name), entry.size)

\* the paths of all the files of the tree that an uncapped collection takes
EligiblePaths(root) ==
    {<<e.name>> : e \in {f \in root.entries : Takeable(f)}} \cup
    {<<d.name, d.children[1].name>> :
        d \in {e \in {x \in root.entries : x.kind = "dir" /\ ~SkipDir(x.name)} :
                  e.listable /\ Len(e.children) = 1 /\ Takeable(e.children[1])}}

\* C22 as stated: two consecutive collections with the same root on an
\* unchanged tree return the same set of paths, for every tree and every
\* maxFiles, also when the tree holds more eligible files than maxFiles and
\* the cap drops some of them.
C22_SamePathsTwice ==
    (pc = "twice" /\ ~vout.first.threw /\ ~vout.second.threw) =>
        PathSet(vout.second) = PathSet(vout.first)

\* C22, amended: two consecutive collections of an unchanged tree return the
\* same paths in the same order, and end the same way, when readdirSync lists
\* the entries in the same order in both calls; whatever the orders, a call
\* that returns yields min(maxFiles, number of eligible files of the tree)
\* distinct eligible files, so two calls that return yield the same set when
\* the tree holds at most maxFiles eligible files, and otherwise maxFiles
\* files each, chosen by the listing order; a call throws only below the cap
\* and only on a tree with an entry that cannot be stat'ed or listed.
C22_SamePathsWhenSameOrderOrUncapped ==
    pc = "twice" =>
        LET all == EligiblePaths(vin.root)
            \* the tree holds something collectFiles cannot stat or cannot list
            hasUnreadableEntry ==
                \/ \E e \in vin.root.entries : e.kind = "broken"
                \/ \E d \in {x \in vin.root.entries :
                                x.kind = "dir" /\ ~SkipDir(x.name)} :
                      \/ ~d.listable
                      \/ (Len(d.children) = 1 /\ d.children[1].kind = "broken")
        IN
        /\ vout.second.listing = vout.first.listing =>
               /\ vout.second.files = vout.first.files
               /\ vout.second.threw = vout.first.threw
        /\ \A call \in {vout.first, vout.second} :
               /\ PathSet(call) \subseteq all
               /\ Cardinality(PathSet(call)) = Len(call.files)
               /\ ~call.threw => Len(call.files) = Min(vin.maxFiles, Cardinality(all))
               /\ call.threw => (/\ hasUnreadableEntry
                                 /\ Len(call.files) < vin.maxFiles)
        /\ (~vout.first.threw /\ ~vout.second.threw /\ Cardinality(all) <= vin.maxFiles) =>
               PathSet(vout.second) = PathSet(vout.first)

\* a tree with two eligible files collected twice under a cap of one, the
\* second call listing the root in the other order: one path each, not the
\* same one
C22_Witness ==
    /\ pc = "twice"
    /\ vin.maxFiles = 1
    /\ Cardinality(EligiblePaths(vin.root)) = 2
    /\ ~vout.first.threw /\ ~vout.second.threw
    /\ vout.second.listing # vout.first.listing
    /\ Len(vout.first.files) = 1 /\ Len(vout.second.files) = 1
    /\ PathSet(vout.second) # PathSet(vout.first)

\* C23 as stated: in the first revision, whenever a run publishes the status
\* output, its value is one of pass, warning, fail, after a successful
\* analysis and after credit exhaustion alike.
C23_StatusDocumented ==
    "status" \in outputs => statusOut \in {"pass", "warning", "fail"}

\* the parameters a layer of the configuration carries
LayerParams == [runtime |-> {"source", "apiKey", "eventsFile"},
                benchmarks |-> {"framework"},
                evals |-> {"source", "apiKey"}]

Carried(layer) ==
    {p \in LayerParams[layer] : vout.config[layer][p].type # "undefined"}

\* C24 as stated: in the LayerConfig built by run the code layer is enabled
\* without parameters, and runtime, benchmarks and evals carry a parameter
\* only when the layer is enabled.
C24_ParamsOnlyWhenEnabled ==
    pc \in {"request", "sent"} =>
        /\ vout.config.code = [enabled |-> TRUE]
        /\ \A l \in OptionalLayers : ~vout.config[l].enabled => Carried(l) = {}

\* C24, amended: in the LayerConfig built by run the code layer is enabled
\* without parameters; runtime is enabled exactly when a source or an events
\* file is given, evals exactly when a source is given, benchmarks unless the
\* input is 'false'; each layer carries the parameters that were supplied
\* (the framework always), enabled or not; the request leaves out the
\* parameters of a disabled layer.
C24_ParamsAsSupplied ==
    pc \in {"request", "sent"} =>
        /\ vout.config.code = [enabled |-> TRUE]
        /\ vout.config.runtime.enabled <=> (vin.runtimeSource # "" \/ vin.eventsFile # "")
        /\ vout.config.evals.enabled <=> vin.evalsSource # ""
        /\ vout.config.benchmarks.enabled <=> vin.includeBenchmarks # "false"
        /\ Carried("runtime") =
               {p \in {"source"} : vin.runtimeSource # ""} \cup
               {p \in {"apiKey"} : vin.runtimeApiKey # ""} \cup
               {p \in {"eventsFile"} : vin.eventsFile # ""}
        /\ Carried("evals") =
               {p \in {"source"} : vin.evalsSource # ""} \cup
               {p \in {"apiKey"} : vin.evalsApiKey # ""}
        /\ Carried("benchmarks") = {"framework"}
        /\ pc = "sent" =>
               \A l \in OptionalLayers :
                   ~vout.config[l].enabled => l \notin DOMAIN vout.body.props.layers.props

\* a runtime API key given without a source or an events file: the layer is
\* disabled and its configuration holds the key
C24_Witness ==
    /\ pc = "request"
    /\ vin.runtimeApiKey # "" /\ vin.runtimeSource = "" /\ vin.eventsFile = ""
    /\ ~vout.config.runtime.enabled
    /\ Carried("runtime") = {"apiKey"}

\* the positions (point, issue) of the issues of a severity in a list of points
PositionsOf(points, sev) ==
    UNION { { <<i, j>> : j \in {n \in 1..Len(points[i].issues) :
                                   points[i].issues[n] = sev} } :
            i \in 1..Len(points) }

\* the earliest position of a non-empty set, points first, then issues
Earliest(positions) ==
    CHOOSE p \in positions :
        \A q \in positions : p[1] < q[1] \/ (p[1] = q[1] /\ p[2] <= q[2])

\* C25: findTopIssue returns the first critical issue in received order when
\* the list holds a critical issue, otherwise the first warning, otherwise
\* nothing; never an info issue, never a warning when a critical exists.
C25_FirstCriticalElseFirstWarning ==
    pc = "top.found" =>
        LET criticals == PositionsOf(vin, "critical")
            warnings == PositionsOf(vin, "warning")
        IN  /\ criticals # {} =>
                   /\ vout.found /\ vout.severity = "critical"
                   /\ <<vout.point, vout.issue>> = Earliest(criticals)
            /\ (criticals = {} /\ warnings # {}) =>
                   /\ vout.found /\ vout.severity = "warning"
                   /\ <<vout.point, vout.issue>> = Earliest(warnings)
            /\ (criticals = {} /\ warnings = {}) => ~vout.found
            /\ vout.found => vin[vout.point].issues[vout.issue] = vout.severity

\* a warning comes before the only critical issue, in the same point, and the
\* critical one is returned
C25_Witness ==
    /\ pc = "top.found"
    /\ Len(vin) > 0
    /\ vin[1].issues = <<"warning", "critical">>
    /\ vout.found /\ vout.severity = "critical"
    /\ vout.point = 1 /\ vout.issue = 2

\* C26 as stated: a run that ends marked failed either exported no verdict
\* (a credential was missing) or its last exported verdict is ERROR, REVIEW or
\* BLOCK, whatever the service answered.
C26_FailedOnlyWithAlarmingVerdict ==
    (pc = "done" /\ failed) =>
        IF verdictOut = "unset"
        THEN ~inputs.peakinferToken \/ ~inputs.githubToken
        ELSE verdictOut \in {"ERROR", "REVIEW", "BLOCK"}

\* C27 as stated: no comment is posted after the run has been marked failed:
\* on every path, each createComment call comes before every setFailed call.
C27_NoPostAfterFailed ==
    \A p \in At("createComment"), f \in At("setFailed") : p < f

====
